---- MODULE Spec2Model ----
(***************************************************************************)
(* A heap model of jax_shim/numpy.py: the ndarray subclass `array`, its    *)
(* `at` accessor (_AtConstructor) and the pending updates (_AtOp).         *)
(*                                                                         *)
(* Arrays are one-dimensional views [buf, off, len] on shared buffers, so  *)
(* that "view without copy", slicing and in-place writes through a stale   *)
(* owner are all observable.  Object identity is the index in a heap       *)
(* sequence.  Fields marked (ghost) record history and are never read by   *)
(* the modelled code.                                                      *)
(***************************************************************************)
EXTENDS Integers, Sequences, FiniteSets, TLC

VARIABLES objs,   \* array objects: [kind, buf, off, len, at, src (ghost), how (ghost)]
          bufs,   \* storage: bufs[b] is a sequence of values
          cons,   \* _AtConstructor objects: [owner]
          ops,    \* _AtOp objects: [owner, key, via (ghost), con (ghost)]
          last,   \* (ghost) the last call: [kind, op, val]
          err     \* exception raised by the last call, "none" if it returned

vars == <<objs, bufs, cons, ops, last, err>>

\* ---------------------------------------------------------------- bounds
MaxObj == 3     \* arrays the program creates (temporaries of array.__new__ apart)
MaxOps == 2     \* _AtOp objects alive at once
MaxVal == 1     \* element values are 0..MaxVal
DataLen == 2    \* length of the input data handed to the constructors

Val == 0..MaxVal

\* The sample input data: one sequence of length DataLen, 0, 1, 2, ... (wrapped
\* into Val).
Data == {[i \in 1..DataLen |-> (i - 1) % (MaxVal + 1)]}

\* The sample contents of storage that is not initialised.
Uninit == Data \cup {[i \in 1..DataLen |-> 0]}

\* Python's None; also "attribute absent" as seen through getattr(obj, "at", None).
None == 0

\* Keys: an integer index (negative counts from the end) or the full slice `:`.
\* The sample has the first index, the last one counted from the end, an index
\* out of range for every array of the model, and the slice.
Keys == [t : {"int"}, i : {0, 0 - 1, DataLen}] \cup [t : {"slice"}, i : {0}]

\* ------------------------------------------------ baseline indexed access
\* owner[key] is legal for an array of length n.
ValidKey(n, k) == k.t = "slice" \/ (k.i >= 0 - n /\ k.i < n)

\* The 1-based positions of an array of length n that owner[key] selects.
Positions(n, k) ==
    IF k.t = "slice" THEN 1..n
    ELSE IF k.i >= 0 THEN {k.i + 1} ELSE {n + k.i + 1}

\* The elements of array object o under storage bs.
ContentsIn(bs, o) == [p \in 1..o.len |-> bs[o.buf][o.off + p]]
Contents(a) == ContentsIn(bufs, objs[a])

\* owner[key] = value with a scalar value broadcast over the selection.
SetItem(bs, o, k, v) ==
    [bs EXCEPT ![o.buf] =
        [j \in DOMAIN @ |->
            IF (j - o.off) \in Positions(o.len, k) THEN v ELSE @[j]]]

\* owner[key] += value.
AddItem(bs, o, k, v) ==
    [bs EXCEPT ![o.buf] =
        [j \in DOMAIN @ |->
            IF (j - o.off) \in Positions(o.len, k) THEN @[j] + v ELSE @[j]]]

\* ------------------------------------------------------- the `array` class
\* Variant of the hook that copies the source's `at` as it is, absent or not.
ArrayFinalizeCopy(os, cs, self, obj) ==
    IF obj = None THEN [at |-> None, cons |-> cs]
    ELSE [at |-> os[obj].at, cons |-> cs]

\* Variant of the hook that always builds a constructor owned by the new
\* instance.
ArrayFinalizeRebind(os, cs, self, obj) ==
    IF obj = None THEN [at |-> None, cons |-> cs]
    ELSE [at |-> Len(cs) + 1, cons |-> Append(cs, [owner |-> self])]

\* array.__array_finalize__(self, obj): the `at` the new instance ends up
\* with and the constructor heap afterwards.  os is the array heap in which
\* obj lives; the new instance is not yet part of it and has index self.
ArrayFinalize(os, cs, self, obj) ==
    IF obj = None THEN [at |-> None, cons |-> cs]
    ELSE LET at_constructor == os[obj].at IN
         IF at_constructor = None
         THEN [at |-> Len(cs) + 1, cons |-> Append(cs, [owner |-> obj])]
         ELSE [at |-> at_constructor, cons |-> cs]

\* The arrays counted against MaxObj: all but the baseline arrays that
\* np.asarray creates inside array.__new__ (they stay alive as the `base` of
\* the wrapper).
Made(os) == {o \in 1..Len(os) : os[o].how # "tmp"}

NoLast == [kind |-> "init", op |-> 0, val |-> 0]

Init ==
    /\ objs = <<>>
    /\ bufs = <<>>
    /\ cons = <<>>
    /\ ops = <<>>
    /\ last = NoLast
    /\ err = "none"

\* A baseline array built from data through the forwarder (jnp.asarray(d)).
NewBaseline(d) ==
    /\ Cardinality(Made(objs)) < MaxObj
    /\ bufs' = Append(bufs, d)
    /\ objs' = Append(objs, [kind |-> "plain", buf |-> Len(bufs) + 1, off |-> 0,
                             len |-> Len(d), at |-> None, src |-> None, how |-> "data"])
    /\ last' = [NoLast EXCEPT !.kind = "baseline"]
    /\ err' = "none"
    /\ UNCHANGED <<cons, ops>>

\* np.asarray(input_array): the baseline array p that results, with the heaps
\* afterwards.  Data is coerced into a new baseline array, a baseline array is
\* returned as it is, an instance of a subclass is re-viewed as a baseline
\* array on the same storage.
AsArray(os, bs, input) ==
    IF input.t = "data"
    THEN [objs |-> Append(os, [kind |-> "plain", buf |-> Len(bs) + 1, off |-> 0,
                               len |-> Len(input.d), at |-> None, src |-> None,
                               how |-> "tmp"]),
          bufs |-> Append(bs, input.d), p |-> Len(os) + 1]
    ELSE IF os[input.o].kind = "plain"
    THEN [objs |-> os, bufs |-> bs, p |-> input.o]
    ELSE [objs |-> Append(os, [os[input.o] EXCEPT !.kind = "plain", !.at = None,
                                                  !.src = input.o, !.how = "tmp"]),
          bufs |-> bs, p |-> Len(os) + 1]

\* Variant of the constructor that copies the data into new storage.
WrapCopy(os, bs, cs, p) ==
    LET self == Len(os) + 1
        fin == ArrayFinalize(os, cs, self, p)
        cs2 == Append(fin.cons, [owner |-> self])
    IN [objs |-> Append(os, [kind |-> "aug", buf |-> Len(bs) + 1, off |-> 0,
                             len |-> os[p].len, at |-> Len(cs2), src |-> p,
                             how |-> "new"]),
        bufs |-> Append(bs, ContentsIn(bs, os[p])), cons |-> cs2]

\* array.__new__ from `.view(cls)` on: the view shares p's storage, the hook
\* runs with obj = p, and then line 32 rebinds `at` to a constructor owned by
\* the new instance.
Wrap(os, bs, cs, p) ==
    LET self == Len(os) + 1
        fin == ArrayFinalize(os, cs, self, p)
        cs2 == Append(fin.cons, [owner |-> self])
    IN [objs |-> Append(os, [kind |-> "aug", buf |-> os[p].buf, off |-> os[p].off,
                             len |-> os[p].len, at |-> Len(cs2), src |-> p,
                             how |-> "new"]),
        bufs |-> bs, cons |-> cs2]

\* What the program hands to the constructor: data, or one of its arrays.
Inputs == [t : {"data"}, d : Data, o : {0}]
            \cup [t : {"obj"}, d : {<<>>}, o : Made(objs)]

\* jnp.array(input_array)
ArrayNew(input) ==
    LET a == AsArray(objs, bufs, input)
        w == Wrap(a.objs, a.bufs, cons, a.p)
    IN /\ Cardinality(Made(w.objs)) <= MaxObj
       /\ objs' = w.objs
       /\ bufs' = w.bufs
       /\ cons' = w.cons
       /\ last' = [NoLast EXCEPT !.kind = "new"]
       /\ err' = "none"
       /\ UNCHANGED ops

\* A new instance of the subclass produced by the baseline library from obj:
\* the instance r (its `at` still to be decided) is passed through the hook.
Derive(r, obj, kind) ==
    LET self == Len(objs) + 1
        fin == ArrayFinalize(objs, cons, self, obj)
    IN /\ Cardinality(Made(objs)) < MaxObj
       /\ objs' = Append(objs, [r EXCEPT !.at = fin.at])
       /\ cons' = fin.cons
       /\ last' = [NoLast EXCEPT !.kind = kind]
       /\ err' = "none"
       /\ UNCHANGED ops

\* o.view(array): o is a baseline array or an instance of the subclass.
ViewCast(o) ==
    /\ o \in Made(objs)
    /\ Derive([objs[o] EXCEPT !.kind = "aug", !.src = o, !.how = "view"], o, "view")
    /\ bufs' = bufs

\* a[lo:hi] on an instance of the subclass: a non-empty basic slice that
\* leaves out at least one element (a[:] is what ViewCast gives).
Slice(a, lo, hi) ==
    /\ objs[a].kind = "aug"
    /\ 0 <= lo /\ lo < hi /\ hi <= objs[a].len
    /\ hi - lo < objs[a].len
    /\ Derive([objs[a] EXCEPT !.off = @ + lo, !.len = hi - lo, !.src = a,
                              !.how = "slice"], a, "slice")
    /\ bufs' = bufs

\* a + c: the result lives in new storage; the baseline library wraps it as an
\* instance of the subclass and runs the hook with the operand a as obj.
Arith(a, c) ==
    /\ objs[a].kind = "aug"
    /\ \A p \in 1..objs[a].len : Contents(a)[p] + c <= MaxVal
    /\ Derive([objs[a] EXCEPT !.buf = Len(bufs) + 1, !.off = 0, !.src = a,
                              !.how = "arith"], a, "arith")
    /\ bufs' = Append(bufs, [p \in 1..objs[a].len |-> Contents(a)[p] + c])

\* np.ndarray.__new__(array, shape): the explicit constructor; the hook runs
\* with obj = None.  The storage is uninitialised: any content d.
Alloc(d) ==
    /\ Derive([kind |-> "aug", buf |-> Len(bufs) + 1, off |-> 0, len |-> Len(d),
               at |-> None, src |-> None, how |-> "alloc"], None, "alloc")
    /\ bufs' = Append(bufs, d)

\* ------------------------------------------------- _AtConstructor, _AtOp
\* _AtConstructor.__getitem__(self, key) for the constructor c.
AtGetItem(c, key) == [owner |-> cons[c].owner, key |-> key]

\* Variant of a.at[k] that binds the operation to the array subscripted
\* instead of the accessor's owner.
GetItemVia(a, k) ==
    /\ objs[a].kind = "aug"
    /\ objs[a].at # None
    /\ Len(ops) < MaxOps
    /\ ops' = Append(ops, [owner |-> a, key |-> k, via |-> a, con |-> objs[a].at])
    /\ last' = [NoLast EXCEPT !.kind = "getitem", !.op = Len(ops) + 1]
    /\ err' = "none"
    /\ UNCHANGED <<objs, bufs, cons>>

\* Variant of a.at[k] that validates the key against the owner at once.
GetItemEager(a, k) ==
    /\ objs[a].kind = "aug"
    /\ objs[a].at # None
    /\ Len(ops) < MaxOps
    /\ LET op == AtGetItem(objs[a].at, k)
       IN IF ValidKey(objs[op.owner].len, k)
          THEN /\ ops' = Append(ops, [owner |-> op.owner, key |-> op.key,
                                      via |-> a, con |-> objs[a].at])
               /\ last' = [NoLast EXCEPT !.kind = "getitem", !.op = Len(ops) + 1]
               /\ err' = "none"
          ELSE /\ ops' = ops
               /\ last' = [NoLast EXCEPT !.kind = "getitem"]
               /\ err' = "IndexError"
    /\ UNCHANGED <<objs, bufs, cons>>

\* a.at[k]
GetItem(a, k) ==
    /\ objs[a].kind = "aug"
    /\ objs[a].at # None
    /\ Len(ops) < MaxOps
    /\ LET op == AtGetItem(objs[a].at, k)
       IN ops' = Append(ops, [owner |-> op.owner, key |-> op.key,
                              via |-> a, con |-> objs[a].at])
    /\ last' = [NoLast EXCEPT !.kind = "getitem", !.op = Len(ops) + 1]
    /\ err' = "none"
    /\ UNCHANGED <<objs, bufs, cons>>

\* _AtOp.set(self, value): self.owner[self.key] = value.  The storage and
\* the exception afterwards; the baseline array raises IndexError for a key
\* that is out of range for the owner and then writes nothing.
AtOpSet(bs, op, value) ==
    IF ValidKey(objs[op.owner].len, op.key)
    THEN [bufs |-> SetItem(bs, objs[op.owner], op.key, value), err |-> "none"]
    ELSE [bufs |-> bs, err |-> "IndexError"]

\* _AtOp.add(self, value): self.owner[self.key] += value.
AtOpAdd(bs, op, value) ==
    IF ValidKey(objs[op.owner].len, op.key)
    THEN [bufs |-> AddItem(bs, objs[op.owner], op.key, value), err |-> "none"]
    ELSE [bufs |-> bs, err |-> "IndexError"]

\* o.set(v) on the operation o.
Set(o, v) ==
    /\ LET r == AtOpSet(bufs, ops[o], v)
       IN bufs' = r.bufs /\ err' = r.err
    /\ last' = [NoLast EXCEPT !.kind = "set", !.op = o, !.val = v]
    /\ UNCHANGED <<objs, cons, ops>>

\* o.add(v) on the operation o; the sums stay within Val.
Add(o, v) ==
    /\ LET r == AtOpAdd(bufs, ops[o], v)
       IN /\ \A b \in DOMAIN r.bufs : \A j \in DOMAIN r.bufs[b] : r.bufs[b][j] <= MaxVal
          /\ bufs' = r.bufs
          /\ err' = r.err
    /\ last' = [NoLast EXCEPT !.kind = "add", !.op = o, !.val = v]
    /\ UNCHANGED <<objs, cons, ops>>

ObjIds == 1..Len(objs)
OpIds == 1..Len(ops)

Next ==
    \/ \E d \in Data : NewBaseline(d)
    \/ \E input \in Inputs : ArrayNew(input)
    \/ \E o \in ObjIds : ViewCast(o)
    \/ \E a \in ObjIds : \E lo, hi \in 0..DataLen : Slice(a, lo, hi)
    \/ \E a \in ObjIds : \E c \in 1..MaxVal : Arith(a, c)
    \/ \E d \in Uninit : Alloc(d)
    \/ \E a \in ObjIds : \E k \in Keys : GetItem(a, k)
    \/ \E o \in OpIds : \E v \in Val : Set(o, v)
    \/ \E o \in OpIds : \E v \in 1..MaxVal : Add(o, v)

Spec == Init /\ [][Next]_vars

\* ------------------------------------------------------------ properties
Aug == {a \in ObjIds : objs[a].kind = "aug"}

\* The kinds of step in which the baseline library derives an instance from
\* an existing array and runs the hook with it.
Derivations == {"view", "slice", "arith"}

\* The array a derivation chain started from.
RECURSIVE Root(_)
Root(b) ==
    IF objs[b].how \in Derivations /\ objs[objs[b].src].kind = "aug"
    THEN Root(objs[b].src)
    ELSE b

\* The step just taken was o.set(v), respectively o.add(v).
SetStep(o, v) == last'.kind = "set" /\ last'.op = o /\ last'.val = v
AddStep(o, v) == last'.kind = "add" /\ last'.op = o /\ last'.val = v

\* C1: for every augmented array A = ops[o].via, fresh or derived, and every
\* key valid for A: after A.at[k].set(v), A[k] equals v and no other position
\* of A is altered.
C1_SetWritesSelection ==
    [][\A o \in OpIds : \A v \in Val :
          (SetStep(o, v) /\ ValidKey(objs[ops[o].via].len, ops[o].key)) =>
             LET A == objs[ops[o].via]
             IN \A p \in 1..A.len :
                   ContentsIn(bufs', A)[p] =
                      IF p \in Positions(A.len, ops[o].key)
                      THEN v ELSE ContentsIn(bufs, A)[p]]_vars

\* C2: for every augmented array A = ops[o].via, fresh or derived, and every
\* key valid for A: after A.at[k].add(v), A[k] equals its old content plus v
\* and no other position of A is altered.
C2_AddIncrementsSelection ==
    [][\A o \in OpIds : \A v \in Val :
          (AddStep(o, v) /\ ValidKey(objs[ops[o].via].len, ops[o].key)) =>
             LET A == objs[ops[o].via]
             IN \A p \in 1..A.len :
                   ContentsIn(bufs', A)[p] =
                      IF p \in Positions(A.len, ops[o].key)
                      THEN ContentsIn(bufs, A)[p] + v ELSE ContentsIn(bufs, A)[p]]_vars

\* C3: in every reachable state every augmented array has a non-null `at`
\* whose owner is that same array.
C3_AtOwnerIsSelf ==
    \A a \in Aug : objs[a].at # None /\ cons[objs[a].at].owner = a

\* C4: every array derived from an augmented array, whether or not the source
\* carries an `at`, has a non-null `at`.
C4_DerivedHasAt ==
    \A b \in Aug :
        (objs[b].src # None /\ objs[objs[b].src].kind = "aug") => objs[b].at # None

\* An array derived from a template allocation that has no `at`.
C4_Witness ==
    \E b \in Aug :
        /\ objs[b].src # None
        /\ objs[objs[b].src].kind = "aug"
        /\ objs[objs[b].src].at = None
        /\ objs[b].at # None

\* C5: a wrapper built by the constructor from an existing baseline array has
\* the elements of that array at construction and after every set/add.
C5_WrapperSharesStorage ==
    \A w \in Aug :
        (objs[w].how = "new" /\ objs[objs[w].src].how = "data") =>
            /\ objs[w].len = objs[objs[w].src].len
            /\ Contents(w) = Contents(objs[w].src)

\* A set or add through the wrapper of a baseline array has just written.
C5_Witness ==
    /\ last.kind \in {"set", "add"}
    /\ err = "none"
    /\ LET w == ops[last.op].via
       IN /\ objs[w].how = "new"
          /\ objs[objs[w].src].how = "data"
          /\ ops[last.op].owner = w
          /\ \E p \in 1..objs[w].len : Contents(w)[p] # (p - 1) % (MaxVal + 1)

\* C6: two operations obtained from the same accessor with the same key have
\* equal owner and key and give the same result for the same set or add, and
\* no step changes the owner or key of an existing operation.
C6_TwiceSameOperation ==
    [][/\ \A o \in OpIds : ops'[o] = ops[o]
       /\ \A o1, o2 \in 1..Len(ops') :
             (o1 # o2 /\ ops'[o1].con = ops'[o2].con /\ ops'[o1].key = ops'[o2].key) =>
                /\ ops'[o1].owner = ops'[o2].owner
                /\ \A v \in Val :
                      /\ AtOpSet(bufs', ops'[o1], v) = AtOpSet(bufs', ops'[o2], v)
                      /\ AtOpAdd(bufs', ops'[o1], v) = AtOpAdd(bufs', ops'[o2], v)]_vars

\* Two operations from one accessor and key, obtained through different arrays
\* that share the accessor, one of them used.
C6_Witness ==
    /\ last.kind \in {"set", "add"}
    /\ \E o1, o2 \in OpIds :
          /\ o1 # o2
          /\ ops[o1].con = ops[o2].con
          /\ ops[o1].key = ops[o2].key
          /\ ops[o1].via # ops[o2].via

\* C7: subscripting `at` raises nothing and changes no array, accessor or
\* existing operation, whatever the key; an exception is raised only by set or
\* add, for a key that is invalid for the owner, and set or add with such a
\* key does raise and writes nothing.
C7_SubscriptNeverRaises ==
    [][/\ last'.kind = "getitem" =>
             /\ err' = "none"
             /\ bufs' = bufs /\ objs' = objs /\ cons' = cons
             /\ Len(ops') = Len(ops) + 1
             /\ \A o \in OpIds : ops'[o] = ops[o]
       /\ err' # "none" =>
             /\ last'.kind \in {"set", "add"}
             /\ ~ValidKey(objs[ops[last'.op].owner].len, ops[last'.op].key)
       /\ (/\ last'.kind \in {"set", "add"}
           /\ ~ValidKey(objs[ops[last'.op].owner].len, ops[last'.op].key)) =>
             /\ err' = "IndexError"
             /\ bufs' = bufs]_vars

\* `at` has just been subscripted with a key that is invalid for the owner.
C7_Witness ==
    /\ last.kind = "getitem"
    /\ err = "none"
    /\ ~ValidKey(objs[ops[last.op].owner].len, ops[last.op].key)

\* C8: an instance derived through the hook from a source without `at` has a
\* constructor whose owner is the new instance, not the source.
C8_FreshConstructorOwnedByNew ==
    \A b \in Aug :
        (objs[b].how \in Derivations /\ objs[objs[b].src].at = None) =>
            /\ objs[b].at # None
            /\ cons[objs[b].at].owner = b

\* The step just taken derived the last array of the heap through the hook.
DeriveStep == last'.kind \in Derivations /\ Len(objs') = Len(objs) + 1

\* C9: when the source of a derivation has a non-null `at`, no constructor is
\* created, the derived array's `at` is the source's constructor object, and
\* the source and every constructor are left as they were.
C9_ReuseExistingConstructor ==
    [][(DeriveStep /\ objs[objs'[Len(objs')].src].at # None) =>
          /\ objs'[Len(objs')].at = objs[objs'[Len(objs')].src].at
          /\ cons' = cons
          /\ \A a \in ObjIds : objs'[a] = objs[a]]_vars

\* An array has just been derived from a source that carries an accessor.
C9_Witness ==
    /\ last.kind \in Derivations
    /\ objs[objs[Len(objs)].src].at # None
    /\ objs[Len(objs)].at = objs[objs[Len(objs)].src].at

\* C10: an array R built by the constructor owns its accessor, every array
\* reached from R by derivations has R as the owner of its accessor, and a set
\* or add through such an array writes R at the key read in R's index space.
C10_DerivedOwnerIsRoot ==
    [][/\ \A b \in {a \in 1..Len(objs') : objs'[a].kind = "aug"} :
             objs'[Root(b)'].how = "new" =>
                 /\ objs'[b].at # None
                 /\ cons'[objs'[b].at].owner = Root(b)'
       /\ \A o \in OpIds : \A v \in Val :
             LET R == objs[Root(ops[o].via)]
                 k == ops[o].key
             IN (R.how = "new" /\ ValidKey(R.len, k)) =>
                   /\ SetStep(o, v) =>
                         \A p \in 1..R.len :
                            ContentsIn(bufs', R)[p] =
                               IF p \in Positions(R.len, k)
                               THEN v ELSE ContentsIn(bufs, R)[p]
                   /\ AddStep(o, v) =>
                         \A p \in 1..R.len :
                            ContentsIn(bufs', R)[p] =
                               IF p \in Positions(R.len, k)
                               THEN ContentsIn(bufs, R)[p] + v
                               ELSE ContentsIn(bufs, R)[p]]_vars

\* A set through an array two derivations away from the constructor-built R.
C10_Witness ==
    /\ last.kind = "set"
    /\ err = "none"
    /\ LET b == ops[last.op].via
       IN /\ Root(b) # b
          /\ Root(b) # objs[b].src
          /\ objs[Root(b)].how = "new"
====
